---- MODULE Spec2Model ----
(***************************************************************************)
(* A model of the PlayStation memory bus (src/src/core/bus.cpp) and of the *)
(* three hardware timers (src/src/core/timers.cpp).                        *)
(*                                                                         *)
(* The timers are the object Timers: m_states[0..2], m_sysclk_div_8_carry, *)
(* and the two collaborators it calls, the interrupt controller (the       *)
(* number of InterruptRequest calls per IRQ line) and the system (the      *)
(* value of the last SetDowncount call, the ticks Synchronize flushes).    *)
(* The bus is the object Bus: m_ram, the nine m_MEMCTRL registers,         *)
(* m_ram_size_reg and the three access-time tables its Reset and its       *)
(* MEMCTRL writes recompute; its TIMERS region calls into the timers; the  *)
(* TTY line buffer of its EXP2 port and the lines it gives to the log.     *)
(* Every handler is one action; the registers keep their 32-bit width.     *)
(***************************************************************************)
EXTENDS Integers, Sequences, FiniteSets, TLC

VARIABLES
  m_states,              \* Timers::m_states: [0..2 -> CounterState]
  m_sysclk_div_8_carry,  \* Timers::m_sysclk_div_8_carry
  irq_requests,          \* InterruptController: InterruptRequest calls per line
  downcount,             \* System: argument of the last SetDowncount call
  pending_ticks,         \* System: ticks the next Synchronize flushes
  m_ram,                 \* Bus::m_ram: the bytes at RamCells
  m_MEMCTRL,             \* Bus::m_MEMCTRL.regs: [0..8 -> u32]
  m_ram_size_reg,        \* Bus::m_ram_size_reg
  m_bios_access_time,    \* Bus::m_bios_access_time: <<byte, halfword, word>>
  m_cdrom_access_time,   \* Bus::m_cdrom_access_time
  m_spu_access_time,     \* Bus::m_spu_access_time
  m_tty_line_buffer,     \* Bus::m_tty_line_buffer: the bytes, oldest first
  tty_log,               \* Log: the lines printed as "TTY: %s", oldest first
  sw,                    \* StateWrapper: what DoState last wrote, per object
  sysclk,                \* total of the ticks Timers::Execute was given
  mark,                  \* per timer: sysclk and IRQ count when it was last set up
  last,                  \* the object the last operation found (after Synchronize)
  trace,                 \* the most recent operations and results, oldest first
  ops                    \* the number of operations performed so far

vars == <<m_states, m_sysclk_div_8_carry, irq_requests, downcount,
          pending_ticks, m_ram, m_MEMCTRL, m_ram_size_reg, m_bios_access_time,
          m_cdrom_access_time, m_spu_access_time, m_tty_line_buffer, tty_log,
          sw, sysclk, mark, last, trace, ops>>

----------------------------------------------------------------------------
(* Bounds of the exploration. *)

\* The number of operations in one run of the timers.
MaxOps == 3

\* The number of operations in one run of the timer 2 scenario.
MaxScenarioOps == 4

\* The number of bus accesses in one run of the bus.
MaxBusOps == 3

\* The number of bus accesses in one run of the TTY port.
MaxTtyOps == 5

\* The number of operations in one run with saved states.
MaxStateOps == 4

\* The number of bus accesses in one run of the memory control registers.
MaxMemctrlOps == 3

\* The number of operations in one run with pending ticks.
MaxSyncOps == 3

\* sysclk stops counting here.
SysclkCap == 1073741824

----------------------------------------------------------------------------
(* Fixed-width arithmetic. *)

\* A 32-bit unsigned value is the pair <<hi, lo>> of its 16-bit halves: the
\* model checker TLC has signed 32-bit integers, the program's registers are u32.
Half == 2 ^ 16

U(hi, lo) == <<hi, lo>>

\* The u32 of an integer 0 .. 2^31-1.
ToU32(n) == <<n \div Half, n % Half>>

\* u32 addition, wrapping at 2^32.
AddU32(a, b) ==
  LET lo == a[2] + b[2]
      hi == a[1] + b[1] + (lo \div Half)
  IN <<hi % Half, lo % Half>>

\* a >= n and a < n, n an integer 0 .. 0xFFFF.
GeU32(a, n) == a[1] > 0 \/ a[2] >= n

\* a % m, m an integer 1 .. 0xFFFF: 2^16 is taken as 256 * 256 so that no
\* intermediate product leaves 31 bits.
ModU32(a, m) ==
  LET h0 == a[1] % m
      h1 == (h0 * 256) % m
      h2 == (h1 * 256) % m
  IN (h2 + (a[2] % m)) % m

Pow2(n) == 2 ^ n

\* a & b of two n-bit numbers, bit by bit.
RECURSIVE AndBits(_, _, _)
AndBits(a, b, n) ==
  IF n = 0
  THEN 0
  ELSE ((a % 2) * (b % 2)) + 2 * AndBits(a \div 2, b \div 2, n - 1)

\* a & b of two 4-bit numbers, tabulated.
And4 == [a \in 0 .. 15 |-> [b \in 0 .. 15 |-> AndBits(a, b, 4)]]

\* a & b of two 16-bit halves, four bits at a time.
And16(a, b) ==
  And4[a % 16][b % 16]
    + 16 * And4[(a \div 16) % 16][(b \div 16) % 16]
    + 256 * And4[(a \div 256) % 16][(b \div 256) % 16]
    + 4096 * And4[a \div 4096][b \div 4096]

\* a & b, a | b and ~a of u32 values.
AndU32(a, b) == <<And16(a[1], b[1]), And16(a[2], b[2])>>

OrU32(a, b) == <<a[1] + b[1] - And16(a[1], b[1]),
                 a[2] + b[2] - And16(a[2], b[2])>>

NotU32(a) == <<(Half - 1) - a[1], (Half - 1) - a[2]>>

\* v << n and v >> n of a u32, n in 0 .. 31: the bits shifted out are lost.
ShlU32(v, n) ==
  IF n >= 16
  THEN <<(v[2] * Pow2(n - 16)) % Half, 0>>
  ELSE <<(v[1] * Pow2(n) + ((v[2] * Pow2(n)) \div Half)) % Half,
         (v[2] * Pow2(n)) % Half>>

ShrU32(v, n) ==
  IF n >= 16
  THEN <<0, v[1] \div Pow2(n - 16)>>
  ELSE <<v[1] \div Pow2(n),
         (v[2] \div Pow2(n)) + (v[1] % Pow2(n)) * Pow2(16 - n)>>

\* Truncate8, Truncate16 and ZeroExtend32, the results kept as u32 pairs.
Truncate8(v) == <<0, v[2] % 256>>

Truncate16(v) == <<0, v[2]>>

ZeroExtend32(n) == <<0, n>>

\* Byte k (0 the lowest) of a u32.
ByteOf(v, k) ==
  CASE k = 0 -> v[2] % 256
    [] k = 1 -> v[2] \div 256
    [] k = 2 -> v[1] % 256
    [] k = 3 -> v[1] \div 256

\* Bits lo .. lo+width-1 of v.
Field(v, lo, width) == (v \div Pow2(lo)) % Pow2(width)

\* v with bits lo .. lo+width-1 replaced by x.
SetField(v, lo, width, x) == v - Field(v, lo, width) * Pow2(lo) + x * Pow2(lo)

B2N(b) == IF b THEN 1 ELSE 0

Min(a, b) == IF a < b THEN a ELSE b

Max(a, b) == IF a > b THEN a ELSE b

----------------------------------------------------------------------------
(* Timers: the mode register's bit fields, the sync modes, the IRQ lines. *)

NUM_TIMERS == 3

TimerIds == 0 .. (NUM_TIMERS - 1)

\* enum SyncMode
PauseOnGate == 0
ResetOnGate == 1
ResetAndRunOnGate == 2
FreeRunOnGate == 3

\* InterruptController::IRQ::TMR0
TMR0 == 4

IrqLines == {TMR0 + i : i \in TimerIds}

\* std::numeric_limits<TickCount>::max(), TickCount being a signed 32-bit int
TickCountMax == 2147483647

sync_enable(mode) == Field(mode, 0, 1) = 1
sync_mode(mode) == Field(mode, 1, 2)
reset_at_target(mode) == Field(mode, 3, 1) = 1
irq_at_target(mode) == Field(mode, 4, 1) = 1
irq_on_overflow(mode) == Field(mode, 5, 1) = 1
irq_repeat(mode) == Field(mode, 6, 1) = 1
irq_pulse_n(mode) == Field(mode, 7, 1) = 1
clock_source(mode) == Field(mode, 8, 2)
interrupt_request_n(mode) == Field(mode, 10, 1) = 1
reached_target(mode) == Field(mode, 11, 1) = 1
reached_overflow(mode) == Field(mode, 12, 1) = 1

Set_sync_enable(mode, b) == SetField(mode, 0, 1, B2N(b))
Set_interrupt_request_n(mode, b) == SetField(mode, 10, 1, B2N(b))
Set_reached_target(mode, b) == SetField(mode, 11, 1, B2N(b))
Set_reached_overflow(mode, b) == SetField(mode, 12, 1, B2N(b))

\* The Timers object with its two collaborators and the Bus object, as one
\* value the methods below take and return.
Pack == [states |-> m_states, carry |-> m_sysclk_div_8_carry,
         irqs |-> irq_requests, downcount |-> downcount,
         pending |-> pending_ticks, sysclk |-> sysclk,
         ram |-> m_ram, MEMCTRL |-> m_MEMCTRL, ram_size_reg |-> m_ram_size_reg,
         bios_access_time |-> m_bios_access_time,
         cdrom_access_time |-> m_cdrom_access_time,
         spu_access_time |-> m_spu_access_time,
         tty_line_buffer |-> m_tty_line_buffer, tty_log |-> tty_log,
         sw |-> sw]

SetCS(T, i, cs) == [T EXCEPT !.states[i] = cs]

\* InterruptController::InterruptRequest(irq)
InterruptRequest(T, irq) == [T EXCEPT !.irqs[irq] = @ + 1]

\* System::SetDowncount(ticks)
SetDowncount(T, ticks) == [T EXCEPT !.downcount = ticks]

----------------------------------------------------------------------------
(* Timers::Reset *)

ResetCS(cs) ==
  [cs EXCEPT !.mode = 0, !.counter = 0, !.target = 0, !.gate = FALSE,
             !.external_counting_enabled = FALSE, !.counting_enabled = TRUE,
             !.irq_done = FALSE]

ResetOp(T) ==
  [T EXCEPT !.states = [i \in TimerIds |-> ResetCS(T.states[i])],
            !.carry = 0]

----------------------------------------------------------------------------
(* Timers::DoState *)

\* The members DoState hands to sw: the eight of each timer, then the carry.
TimersState(T) == [states |-> T.states, carry |-> T.carry]

\* Timers::DoState: a writing sw takes the members, a reading sw stores in
\* them what it holds.
DoStateOp(T, reading) ==
  IF reading
  THEN [T EXCEPT !.states = T.sw.timers[1].states,
                 !.carry = T.sw.timers[1].carry]
  ELSE [T EXCEPT !.sw.timers = <<TimersState(T)>>]

----------------------------------------------------------------------------
(* Timers::UpdateCountingEnabled *)

\* ResetAndRunOnGate taken for PauseOnGate.
UpdateCountingEnabled_RunPaused(cs) ==
  LET ce == IF sync_enable(cs.mode)
            THEN CASE sync_mode(cs.mode) = PauseOnGate -> ~cs.gate
                   [] sync_mode(cs.mode) = FreeRunOnGate -> ~cs.gate
                   [] sync_mode(cs.mode) = ResetOnGate -> TRUE
                   [] sync_mode(cs.mode) = ResetAndRunOnGate -> ~cs.gate
            ELSE TRUE
  IN [cs EXCEPT !.counting_enabled = ce,
                !.external_counting_enabled = cs.use_external_clock /\ ce]

\* The external clock counts whether or not the timer counts.
UpdateCountingEnabled_ExternalAlways(cs) ==
  LET ce == IF sync_enable(cs.mode)
            THEN CASE sync_mode(cs.mode) = PauseOnGate -> ~cs.gate
                   [] sync_mode(cs.mode) = FreeRunOnGate -> ~cs.gate
                   [] sync_mode(cs.mode) = ResetOnGate -> TRUE
                   [] sync_mode(cs.mode) = ResetAndRunOnGate -> cs.gate
            ELSE TRUE
  IN [cs EXCEPT !.counting_enabled = ce,
                !.external_counting_enabled = cs.use_external_clock]

UpdateCountingEnabled(cs) ==
  LET ce == IF sync_enable(cs.mode)
            THEN CASE sync_mode(cs.mode) = PauseOnGate -> ~cs.gate
                   [] sync_mode(cs.mode) = FreeRunOnGate -> ~cs.gate
                   [] sync_mode(cs.mode) = ResetOnGate -> TRUE
                   [] sync_mode(cs.mode) = ResetAndRunOnGate -> cs.gate
            ELSE TRUE
  IN [cs EXCEPT !.counting_enabled = ce,
                !.external_counting_enabled = cs.use_external_clock /\ ce]

----------------------------------------------------------------------------
(* Timers::UpdateIRQ *)

\* A request is signalled whether or not one was signalled before.
UpdateIRQ_NoLatch(T, index) ==
  LET cs == T.states[index]
  IN IF interrupt_request_n(cs.mode)
     THEN T
     ELSE InterruptRequest(SetCS(T, index, [cs EXCEPT !.irq_done = TRUE]),
                           TMR0 + index)

UpdateIRQ(T, index) ==
  LET cs == T.states[index]
  IN IF interrupt_request_n(cs.mode) \/ (~irq_repeat(cs.mode) /\ cs.irq_done)
     THEN T
     ELSE InterruptRequest(SetCS(T, index, [cs EXCEPT !.irq_done = TRUE]),
                           TMR0 + index)

----------------------------------------------------------------------------
(* Timers::SetGate *)

\* The gate acts by its level: a call that repeats the state acts again.
SetGateOp_LevelTriggered(T, timer, state) ==
  LET cs == T.states[timer]
      cs1 == [cs EXCEPT !.gate = state]
      cs2 == IF state
             THEN CASE sync_mode(cs1.mode) \in {ResetOnGate, ResetAndRunOnGate}
                         -> [cs1 EXCEPT !.counter = 0]
                    [] sync_mode(cs1.mode) = FreeRunOnGate
                         -> [cs1 EXCEPT !.mode = Set_sync_enable(@, FALSE)]
                    [] OTHER -> cs1
             ELSE cs1
  IN IF sync_enable(cs1.mode)
     THEN SetCS(T, timer, UpdateCountingEnabled(cs2))
     ELSE SetCS(T, timer, cs1)

SetGateOp(T, timer, state) ==
  LET cs == T.states[timer]
      cs1 == [cs EXCEPT !.gate = state]
      cs2 == IF state
             THEN CASE sync_mode(cs1.mode) \in {ResetOnGate, ResetAndRunOnGate}
                         -> [cs1 EXCEPT !.counter = 0]
                    [] sync_mode(cs1.mode) = FreeRunOnGate
                         -> [cs1 EXCEPT !.mode = Set_sync_enable(@, FALSE)]
                    [] OTHER -> cs1
             ELSE cs1
  IN IF cs.gate = state
     THEN T
     ELSE IF sync_enable(cs1.mode)
          THEN SetCS(T, timer, UpdateCountingEnabled(cs2))
          ELSE SetCS(T, timer, cs1)

----------------------------------------------------------------------------
(* Timers::AddTicks *)

\* Line 86, cs.counter += count: the sum as a u32.
Advanced(cs, count) == AddU32(ToU32(cs.counter), ToU32(count))

\* Line 89.
HitTarget(cs, count) ==
  GeU32(Advanced(cs, count), cs.target) /\ cs.counter < cs.target

\* Line 94.
HitOverflow(cs, count) == GeU32(Advanced(cs, count), 65535)

\* Lines 85-98: the counter advanced and the reached flags set. cs.counter
\* holds the u32 sum until AddTicksWrap reduces it.
AddTicksCount(cs, count) ==
  [cs EXCEPT
     !.counter = Advanced(cs, count),
     !.mode = SetField(
                SetField(@, 11, 1,
                         IF HitTarget(cs, count) THEN 1 ELSE Field(@, 11, 1)),
                12, 1,
                IF HitOverflow(cs, count) THEN 1 ELSE Field(@, 12, 1))]

\* cs.mode.interrupt_request_n = b
SetLine(T, timer, b) ==
  [T EXCEPT !.states[timer].mode = Set_interrupt_request_n(@, b)]

\* cs.mode.interrupt_request_n ^= true
ToggleLine(T, timer) ==
  [T EXCEPT !.states[timer].mode =
              Set_interrupt_request_n(@, ~interrupt_request_n(@))]

\* Lines 100-114: the interrupt line pulsed or toggled.
AddTicksIRQ(T, timer, interrupt_request) ==
  IF ~interrupt_request
  THEN T
  ELSE IF ~irq_pulse_n(T.states[timer].mode)
       THEN SetLine(UpdateIRQ(SetLine(T, timer, FALSE), timer), timer, TRUE)
       ELSE UpdateIRQ(ToggleLine(T, timer), timer)

\* The counter wraps modulo 0x10000.
AddTicksWrap_Pow2(cs) ==
  IF reset_at_target(cs.mode)
  THEN IF cs.target > 0
       THEN [cs EXCEPT !.counter = ModU32(@, cs.target)]
       ELSE [cs EXCEPT !.counter = 0]
  ELSE [cs EXCEPT !.counter = @[2]]

\* Lines 116-126: the counter wrapped.
AddTicksWrap(cs) ==
  IF reset_at_target(cs.mode)
  THEN IF cs.target > 0
       THEN [cs EXCEPT !.counter = ModU32(@, cs.target)]
       ELSE [cs EXCEPT !.counter = 0]
  ELSE [cs EXCEPT !.counter = ModU32(@, 65535)]

WrapTimer(T, timer) == [T EXCEPT !.states[timer] = AddTicksWrap(@)]

CountTimer(T, timer, count) ==
  [T EXCEPT !.states[timer] = AddTicksCount(@, count)]

AddTicks(T, timer, count) ==
  WrapTimer(
    AddTicksIRQ(CountTimer(T, timer, count), timer,
                HitTarget(T.states[timer], count)
                  \/ HitOverflow(T.states[timer], count)),
    timer)

----------------------------------------------------------------------------
(* Timers::UpdateDowncount *)

\* Timer 2 on sysclk/8 divides its ticks by 8 and publishes the quotient.
DowncountStep_NoFloor(cs, i, min_ticks) ==
  IF ~cs.counting_enabled \/ (i < 2 /\ cs.external_counting_enabled)
  THEN min_ticks
  ELSE LET t0 == min_ticks
           t1 == IF irq_at_target(cs.mode) /\ cs.counter < cs.target
                 THEN cs.target - cs.counter
                 ELSE t0
           t2 == IF irq_on_overflow(cs.mode) /\ cs.counter < cs.target
                 THEN Min(t1, 65535 - cs.counter)
                 ELSE t1
           t3 == IF cs.external_counting_enabled
                 THEN t2 \div 8
                 ELSE t2
       IN Min(min_ticks, t3)

\* One pass of the loop body for timer i, min_ticks being the running minimum.
DowncountStep(cs, i, min_ticks) ==
  IF ~cs.counting_enabled \/ (i < 2 /\ cs.external_counting_enabled)
  THEN min_ticks
  ELSE LET t0 == min_ticks
           t1 == IF irq_at_target(cs.mode) /\ cs.counter < cs.target
                 THEN cs.target - cs.counter
                 ELSE t0
           t2 == IF irq_on_overflow(cs.mode) /\ cs.counter < cs.target
                 THEN Min(t1, 65535 - cs.counter)
                 ELSE t1
           t3 == IF cs.external_counting_enabled
                 THEN Max(1, t2 \div 8)
                 ELSE t2
       IN Min(min_ticks, t3)

UpdateDowncount(T) ==
  SetDowncount(T,
    DowncountStep(T.states[2], 2,
      DowncountStep(T.states[1], 1,
        DowncountStep(T.states[0], 0, TickCountMax))))

----------------------------------------------------------------------------
(* Timers::Execute *)

\* The ticks given to Execute so far, up to SysclkCap.
Elapse(T, sysclk_ticks) ==
  [T EXCEPT !.sysclk = IF sysclk_ticks >= SysclkCap - @
                       THEN SysclkCap
                       ELSE @ + sysclk_ticks]

\* Lines 131-134: timers 0 and 1 on sysclk.
ExecuteSysclk(T, timer, sysclk_ticks) ==
  IF ~T.states[timer].external_counting_enabled
     /\ T.states[timer].counting_enabled
  THEN AddTicks(T, timer, sysclk_ticks)
  ELSE T

\* Lines 135-144: timer 2 on sysclk/8 or on sysclk.
\* The carry is stored and left out of the division.
ExecuteTimer2_DropsCarry(T, sysclk_ticks) ==
  IF T.states[2].external_counting_enabled
  THEN AddTicks([T EXCEPT !.carry = (sysclk_ticks + T.carry) % 8], 2,
                sysclk_ticks \div 8)
  ELSE IF T.states[2].counting_enabled
       THEN AddTicks(T, 2, sysclk_ticks)
       ELSE T

ExecuteTimer2(T, sysclk_ticks) ==
  IF T.states[2].external_counting_enabled
  THEN AddTicks([T EXCEPT !.carry = (sysclk_ticks + T.carry) % 8], 2,
                (sysclk_ticks + T.carry) \div 8)
  ELSE IF T.states[2].counting_enabled
       THEN AddTicks(T, 2,
                     IF T.states[2].external_counting_enabled
                     THEN sysclk_ticks \div 8
                     ELSE sysclk_ticks)
       ELSE T

ExecuteOp(T, sysclk_ticks) ==
  UpdateDowncount(
    ExecuteTimer2(
      ExecuteSysclk(
        ExecuteSysclk(Elapse(T, sysclk_ticks), 0, sysclk_ticks),
        1, sysclk_ticks),
      sysclk_ticks))

----------------------------------------------------------------------------
(* System::Synchronize: the pending ticks are flushed into Timers::Execute; *)
(* with no tick pending it is a no-op and Execute is not entered.           *)

Synchronize(T) ==
  IF T.pending = 0
  THEN T
  ELSE [ExecuteOp(T, T.pending) EXCEPT !.pending = 0]

----------------------------------------------------------------------------
(* Timers::ReadRegister: the object after the read, and the value read. *)

\* A mode read that forgets to clear reached_target.
ReadMode_KeepsTarget(S, timer_index) ==
  LET cs == S.states[timer_index]
  IN [T |-> SetCS(S, timer_index,
              [cs EXCEPT !.mode = Set_reached_overflow(@, FALSE)]),
      at |-> S, ret |-> ToU32(cs.mode)]

\* case 0x00, after Synchronize.
ReadCounter(S, timer_index) ==
  [T |-> S, at |-> S, ret |-> ToU32(S.states[timer_index].counter)]

\* case 0x04, after Synchronize: the bits are taken, then the flags cleared.
ReadMode(S, timer_index) ==
  LET cs == S.states[timer_index]
      bits == cs.mode
      m1 == Set_reached_overflow(cs.mode, FALSE)
      m2 == Set_reached_target(m1, FALSE)
  IN [T |-> SetCS(S, timer_index, [cs EXCEPT !.mode = m2]),
      at |-> S, ret |-> ToU32(bits)]

\* The counter and the mode are read before the pending ticks are flushed.
ReadRegister_Unsynchronized(T, offset) ==
  LET timer_index == Field(offset, 4, 2)
      port_offset == offset % 16
  IN CASE port_offset = 0 -> ReadCounter(T, timer_index)
       [] port_offset = 4 -> ReadMode(T, timer_index)
       [] port_offset = 8 ->
            [T |-> T, at |-> T, ret |-> ToU32(T.states[timer_index].target)]
       [] OTHER -> [T |-> T, at |-> T, ret |-> U(65535, 65535)]

ReadRegister(T, offset) ==
  LET timer_index == Field(offset, 4, 2)
      port_offset == offset % 16
  IN CASE port_offset = 0 -> ReadCounter(Synchronize(T), timer_index)
       [] port_offset = 4 -> ReadMode(Synchronize(T), timer_index)
       [] port_offset = 8 ->
            [T |-> T, at |-> T, ret |-> ToU32(T.states[timer_index].target)]
       [] OTHER -> [T |-> T, at |-> T, ret |-> U(65535, 65535)]

----------------------------------------------------------------------------
(* Timers::WriteRegister: T the object after the write, at the object the   *)
(* write found once Synchronize had returned.                               *)

\* The result record of a method that returns nothing.
Void(T, at) == [T |-> T, at |-> at, ret |-> U(0, 0)]

WriteMode(S, timer_index, value) ==
  LET cs == S.states[timer_index]
      bits == value[2] % 8192
      cs1 == [cs EXCEPT
                !.mode = bits,
                !.use_external_clock =
                   IF timer_index = 2
                   THEN Field(bits, 9, 1) = 1
                   ELSE Field(bits, 8, 1) = 1,
                !.counter = 0,
                !.irq_done = FALSE]
      cs2 == IF irq_pulse_n(cs1.mode)
             THEN [cs1 EXCEPT !.mode = Set_interrupt_request_n(@, TRUE)]
             ELSE cs1
  IN Void(UpdateIRQ(SetCS(S, timer_index, UpdateCountingEnabled(cs2)),
                    timer_index),
          S)

\* A write that keeps the bits above 0xFFFF.
WriteCounter_Unmasked(S, timer_index, value) ==
  Void(SetCS(S, timer_index,
             [S.states[timer_index] EXCEPT
                !.counter = value[1] * Half + value[2]]),
       S)

\* case 0x00: cs.counter = value & 0xFFFF
WriteCounter(S, timer_index, value) ==
  Void(SetCS(S, timer_index,
             [S.states[timer_index] EXCEPT !.counter = value[2]]),
       S)

\* case 0x08: cs.target = value & 0xFFFF
WriteTarget(S, timer_index, value) ==
  Void(SetCS(S, timer_index,
             [S.states[timer_index] EXCEPT !.target = value[2]]),
       S)

WriteRegister(T, offset, value) ==
  LET timer_index == Field(offset, 4, 2)
      port_offset == offset % 16
  IN CASE port_offset = 0 -> WriteCounter(Synchronize(T), timer_index, value)
       [] port_offset = 4 -> WriteMode(Synchronize(T), timer_index, value)
       [] port_offset = 8 -> WriteTarget(Synchronize(T), timer_index, value)
       [] OTHER -> Void(T, T)

----------------------------------------------------------------------------
(* Bus: the MEMCTRL registers and the memory timing calculator. *)

\* The indices of m_MEMCTRL.regs, in the order of the union's fields.
exp1_base == 0
exp2_base == 1
exp1_delay_size == 2
exp3_delay_size == 3
bios_delay_size == 4
spu_delay_size == 5
cdrom_delay_size == 6
exp2_delay_size == 7
common_delay == 8

MemctrlRegs == exp1_base .. common_delay

\* MEMDELAY::WRITE_MASK 0xAF1FFFFF and COMDELAY::WRITE_MASK 0x0003FFFF
MEMDELAY_WRITE_MASK == U(44831, 65535)

COMDELAY_WRITE_MASK == U(3, 65535)

\* The bit fields of MEMDELAY and COMDELAY, all in the low half.
access_time(mem_delay) == Field(mem_delay[2], 4, 4)
use_com0_time(mem_delay) == Field(mem_delay[2], 8, 1) = 1
use_com2_time(mem_delay) == Field(mem_delay[2], 10, 1) = 1
use_com3_time(mem_delay) == Field(mem_delay[2], 11, 1) = 1
data_bus_16bit(mem_delay) == Field(mem_delay[2], 12, 1) = 1
com0(com_delay) == Field(com_delay[2], 0, 4)
com2(com_delay) == Field(com_delay[2], 8, 4)
com3(com_delay) == Field(com_delay[2], 12, 4)

\* Lines 182-201: first, seq and min, each from the one before.
TimingFirst0(mem_delay, com_delay) ==
  (IF use_com0_time(mem_delay) THEN com0(com_delay) - 1 ELSE 0)
    + (IF use_com2_time(mem_delay) THEN com2(com_delay) ELSE 0)

TimingMin(mem_delay, com_delay) ==
  IF use_com3_time(mem_delay) THEN com3(com_delay) ELSE 0

TimingFirst(mem_delay, com_delay) ==
  Max(TimingMin(mem_delay, com_delay) + 6,
      (IF TimingFirst0(mem_delay, com_delay) < 6
       THEN TimingFirst0(mem_delay, com_delay) + 1
       ELSE TimingFirst0(mem_delay, com_delay))
        + access_time(mem_delay) + 2)

TimingSeq(mem_delay, com_delay) ==
  Max(TimingMin(mem_delay, com_delay) + 2,
      TimingFirst0(mem_delay, com_delay) + access_time(mem_delay) + 2)

\* Bus::CalculateMemoryTiming: <<byte, halfword, word>> access times.
CalculateMemoryTiming(mem_delay, com_delay) ==
  <<TimingFirst(mem_delay, com_delay),
    IF data_bus_16bit(mem_delay)
    THEN TimingFirst(mem_delay, com_delay)
    ELSE TimingFirst(mem_delay, com_delay) + TimingSeq(mem_delay, com_delay),
    IF data_bus_16bit(mem_delay)
    THEN TimingFirst(mem_delay, com_delay) + TimingSeq(mem_delay, com_delay)
    ELSE TimingFirst(mem_delay, com_delay)
           + 3 * TimingSeq(mem_delay, com_delay)>>

\* Bus::RecalculateMemoryTimings
RecalculateMemoryTimings(S) ==
  [S EXCEPT
     !.bios_access_time =
        CalculateMemoryTiming(S.MEMCTRL[bios_delay_size],
                              S.MEMCTRL[common_delay]),
     !.cdrom_access_time =
        CalculateMemoryTiming(S.MEMCTRL[cdrom_delay_size],
                              S.MEMCTRL[common_delay]),
     !.spu_access_time =
        CalculateMemoryTiming(S.MEMCTRL[spu_delay_size],
                              S.MEMCTRL[common_delay])]

\* The values Bus::Reset stores: 0x1F000000, 0x1F802000, 0x0013243F,
\* 0x00003022, 0x0013243F, 0x200931E1, 0x00020843, 0x00070777, 0x00031125.
ResetMEMCTRL ==
  [i \in MemctrlRegs |->
     CASE i = exp1_base -> U(7936, 0)
       [] i = exp2_base -> U(8064, 8192)
       [] i = exp1_delay_size -> U(19, 9279)
       [] i = exp3_delay_size -> U(0, 12322)
       [] i = bios_delay_size -> U(19, 9279)
       [] i = spu_delay_size -> U(8201, 12769)
       [] i = cdrom_delay_size -> U(2, 2115)
       [] i = exp2_delay_size -> U(7, 1911)
       [] i = common_delay -> U(3, 4389)]

\* Bus::Reset
BusResetOp(S) ==
  RecalculateMemoryTimings(
    [S EXCEPT !.ram = [c \in DOMAIN @ |-> 0],
              !.MEMCTRL = ResetMEMCTRL,
              !.ram_size_reg = U(0, 2952)])

\* The members Bus::DoState hands to sw that the bus of this module has.
BusState(S) ==
  [bios_access_time |-> S.bios_access_time,
   cdrom_access_time |-> S.cdrom_access_time,
   spu_access_time |-> S.spu_access_time,
   ram |-> S.ram, MEMCTRL |-> S.MEMCTRL, ram_size_reg |-> S.ram_size_reg,
   tty_line_buffer |-> S.tty_line_buffer]

\* Bus::DoState: the tables are stored as they were saved, they are not
\* recalculated from the registers.
BusDoStateOp(S, reading) ==
  IF reading
  THEN [S EXCEPT !.bios_access_time = S.sw.bus[1].bios_access_time,
                 !.cdrom_access_time = S.sw.bus[1].cdrom_access_time,
                 !.spu_access_time = S.sw.bus[1].spu_access_time,
                 !.ram = S.sw.bus[1].ram,
                 !.MEMCTRL = S.sw.bus[1].MEMCTRL,
                 !.ram_size_reg = S.sw.bus[1].ram_size_reg,
                 !.tty_line_buffer = S.sw.bus[1].tty_line_buffer]
  ELSE [S EXCEPT !.sw.bus = <<BusState(S)>>]

\* FixupUnalignedWordAccessW32: offset and value are both rewritten.
FixupUnalignedWordAccessW32(offset, value) ==
  [offset |-> offset - (offset % 4),
   value |-> ShlU32(value, (offset % 4) * 8)]

\* Bus::DoReadMemoryControl: the register is indexed by the offset given,
\* then the value goes through the fixup.
DoReadMemoryControl(S, size, offset) ==
  FixupUnalignedWordAccessW32(offset, S.MEMCTRL[offset \div 4]).value

\* A write that stores the value as given, the write mask ignored.
DoWriteMemoryControl_Unmasked(S, size, offset, value) ==
  LET f == FixupUnalignedWordAccessW32(offset, value)
      index == f.offset \div 4
  IN IF S.MEMCTRL[index] # f.value
     THEN RecalculateMemoryTimings([S EXCEPT !.MEMCTRL[index] = f.value])
     ELSE S

\* A write that stores the register and keeps the cached tables.
DoWriteMemoryControl_NoRecalc(S, size, offset, value) ==
  LET f == FixupUnalignedWordAccessW32(offset, value)
      index == f.offset \div 4
      write_mask == IF index = 8 THEN COMDELAY_WRITE_MASK
                    ELSE MEMDELAY_WRITE_MASK
      new_value == OrU32(AndU32(S.MEMCTRL[index], NotU32(write_mask)),
                         AndU32(f.value, write_mask))
  IN [S EXCEPT !.MEMCTRL[index] = new_value]

\* Bus::DoWriteMemoryControl
DoWriteMemoryControl(S, size, offset, value) ==
  LET f == FixupUnalignedWordAccessW32(offset, value)
      index == f.offset \div 4
      write_mask == IF index = 8 THEN COMDELAY_WRITE_MASK
                    ELSE MEMDELAY_WRITE_MASK
      new_value == OrU32(AndU32(S.MEMCTRL[index], NotU32(write_mask)),
                         AndU32(f.value, write_mask))
  IN IF S.MEMCTRL[index] # new_value
     THEN RecalculateMemoryTimings([S EXCEPT !.MEMCTRL[index] = new_value])
     ELSE S

\* A read that is invalid leaves the caller's value as it was.
DoInvalidAccess_KeepsValue(type, value) == [value |-> value, ticks |-> 1]

\* Bus::DoInvalidAccess: the value after the call, and the ticks returned.
DoInvalidAccess(type, value) ==
  [value |-> IF type = "Read" THEN U(65535, 65535) ELSE value, ticks |-> 1]

\* Bus::DoReadMemoryControl2
DoReadMemoryControl2(S, size, offset) ==
  IF offset = 0 THEN S.ram_size_reg ELSE DoInvalidAccess("Read", U(0, 0)).value

\* Bus::DoWriteMemoryControl2
DoWriteMemoryControl2(S, size, offset, value) ==
  IF offset = 0 THEN [S EXCEPT !.ram_size_reg = value] ELSE S

\* Bus::DoReadEXP2: offset 0x21 reads 0x04 | 0x08.
DoReadEXP2(S, size, offset) ==
  IF offset = 33 THEN U(0, 12) ELSE U(65535, 65535)

\* What "%s" prints of the character array chars: the bytes before its
\* first zero byte.
CString(chars) ==
  IF \E k \in 1 .. Len(chars) : chars[k] = 0
  THEN SubSeq(chars, 1,
              (CHOOSE k \in 1 .. Len(chars) :
                 /\ chars[k] = 0
                 /\ \A j \in 1 .. k - 1 : chars[j] # 0) - 1)
  ELSE chars

\* Log_InfoPrintf("TTY: %s", ...): the line joins the log.
LogTTY(S, line) == [S EXCEPT !.tty_log = Append(@, CString(line))]

\* Bus::DoWriteEXP2: offset 0x23 is the TTY port; the POST status of offset
\* 0x41 and the other offsets are logged as warnings only.
DoWriteEXP2(S, size, offset, value) ==
  IF offset = 35
  THEN IF value = U(0, 13)
       THEN S
       ELSE IF value = U(0, 10)
            THEN [(IF S.tty_line_buffer # <<>>
                   THEN LogTTY(S, S.tty_line_buffer)
                   ELSE S)
                  EXCEPT !.tty_line_buffer = <<>>]
            ELSE [S EXCEPT !.tty_line_buffer = Append(@, Truncate8(value)[2])]
  ELSE S

\* Lines 462-463: r is what m_timers->ReadRegister(offset) did and returned.
TimersValue(r, offset) ==
  [S |-> r.T, at |-> r.at,
   value |-> FixupUnalignedWordAccessW32(offset, r.ret).value]

\* Bus::DoReadTimers: the register is read at the offset given, then the
\* value goes through the fixup. S is the machine after the read, at the
\* one the read found.
DoReadTimers(S, size, offset) ==
  TimersValue(ReadRegister(S, offset), offset)

\* Bus::DoWriteTimers
DoWriteTimers(S, size, offset, value) ==
  WriteRegister(S, FixupUnalignedWordAccessW32(offset, value).offset,
                FixupUnalignedWordAccessW32(offset, value).value)

----------------------------------------------------------------------------
(* Bus: the address decoder. *)

\* The regions: 2 MiB of RAM mirrored into 8 MiB, MEMCTRL at 0x1F801000,
\* MEMCTRL2 at 0x1F801060, TIMERS at 0x1F801100, EXP2 at 0x1F802000.
RAM_SIZE == 2097152
RAM_MIRROR_END == 8388608
MEMCTRL_BASE == 528486400
MEMCTRL_SIZE == 36
MEMCTRL2_BASE == 528486496
MEMCTRL2_SIZE == 4
TIMERS_BASE == 528486656
TIMERS_SIZE == 48
EXP2_BASE == 528490496
EXP2_SIZE == 8192

\* The RAM cells the model keeps: 0x1000 .. 0x1003.
RamCells == {4096 + k : k \in 0 .. 3}

\* 1 << size
TransferSize(size) ==
  CASE size = "Byte" -> 1 [] size = "HalfWord" -> 2 [] size = "Word" -> 4

\* The little-endian value of the first n bytes at offset.
RamValue(ram, offset, n) ==
  <<(IF n > 2 THEN ram[offset + 2] + 256 * ram[offset + 3] ELSE 0),
    ram[offset] + (IF n > 1 THEN 256 * ram[offset + 1] ELSE 0)>>

\* RAM access of the decoder: the bytes copied out of or into m_ram.
DoRAMAccess(S, type, size, address, value) ==
  IF type = "Read"
  THEN [S |-> S, at |-> S,
        value |-> RamValue(S.ram, address % RAM_SIZE, TransferSize(size))]
  ELSE [S |-> [S EXCEPT
                 !.ram = [c \in DOMAIN @ |->
                            IF c >= address % RAM_SIZE
                               /\ c < (address % RAM_SIZE) + TransferSize(size)
                            THEN ByteOf(value, c - (address % RAM_SIZE))
                            ELSE @[c]]],
        at |-> S, value |-> value]

\* r is what m_timers->WriteRegister did; the value is left as it was.
TimersWritten(r, value) == [S |-> r.T, at |-> r.at, value |-> value]

\* Bus::DispatchAccess<type, size>(address, value): S the machine after the
\* access, at the one it found, value the u32 after the call.
DispatchAccess(S, type, size, address, value) ==
  CASE address < RAM_MIRROR_END -> DoRAMAccess(S, type, size, address, value)
    [] address >= MEMCTRL_BASE /\ address < MEMCTRL_BASE + MEMCTRL_SIZE ->
         IF type = "Read"
         THEN [S |-> S, at |-> S,
               value |-> DoReadMemoryControl(S, size, address - MEMCTRL_BASE)]
         ELSE [S |-> DoWriteMemoryControl(S, size, address - MEMCTRL_BASE,
                                          value),
               at |-> S, value |-> value]
    [] address >= MEMCTRL2_BASE /\ address < MEMCTRL2_BASE + MEMCTRL2_SIZE ->
         IF type = "Read"
         THEN [S |-> S, at |-> S,
               value |-> DoReadMemoryControl2(S, size,
                                              address - MEMCTRL2_BASE)]
         ELSE [S |-> DoWriteMemoryControl2(S, size, address - MEMCTRL2_BASE,
                                           value),
               at |-> S, value |-> value]
    [] address >= TIMERS_BASE /\ address < TIMERS_BASE + TIMERS_SIZE ->
         IF type = "Read"
         THEN DoReadTimers(S, size, address - TIMERS_BASE)
         ELSE TimersWritten(
                DoWriteTimers(S, size, address - TIMERS_BASE, value), value)
    [] address >= EXP2_BASE /\ address < EXP2_BASE + EXP2_SIZE ->
         IF type = "Read"
         THEN [S |-> S, at |-> S,
               value |-> DoReadEXP2(S, size, address - EXP2_BASE)]
         ELSE [S |-> DoWriteEXP2(S, size, address - EXP2_BASE, value),
               at |-> S, value |-> value]
    [] OTHER -> [S |-> S, at |-> S, value |-> DoInvalidAccess(type, value).value]

\* The access type each entry point passes to DispatchAccess: lines 83-119.
ReadByteType == "Read"
ReadHalfWordType == "Read"
ReadWordType == "Read"
WriteByteType == "Read"
WriteHalfWordType == "Read"
WriteWordType == "Write"

\* The result of a bus read r: the value is truncated by the entry point.
ReadResult(r, value) == [T |-> r.S, at |-> r.at, ret |-> value]

\* The result of a bus write r: nothing is returned.
WriteResult(r) == [T |-> r.S, at |-> r.at, ret |-> U(0, 0)]

\* Bus::ReadByte: *value = Truncate8(temp)
ReadByteOp(S, address) ==
  ReadResult(
    DispatchAccess(S, ReadByteType, "Byte", address, U(0, 0)),
    Truncate8(DispatchAccess(S, ReadByteType, "Byte", address,
                             U(0, 0)).value))

\* Bus::ReadHalfWord: *value = Truncate16(temp)
ReadHalfWordOp(S, address) ==
  ReadResult(
    DispatchAccess(S, ReadHalfWordType, "HalfWord", address, U(0, 0)),
    Truncate16(DispatchAccess(S, ReadHalfWordType, "HalfWord", address,
                              U(0, 0)).value))

\* Bus::ReadWord: the caller's word is passed by reference.
ReadWordOp(S, address) ==
  ReadResult(
    DispatchAccess(S, ReadWordType, "Word", address, U(0, 0)),
    DispatchAccess(S, ReadWordType, "Word", address, U(0, 0)).value)

\* Bus::WriteByte: temp = ZeroExtend32(value)
WriteByteOp(S, address, value) ==
  WriteResult(DispatchAccess(S, WriteByteType, "Byte", address,
                             ZeroExtend32(value)))

\* Bus::WriteHalfWord: temp = ZeroExtend32(value)
WriteHalfWordOp(S, address, value) ==
  WriteResult(DispatchAccess(S, WriteHalfWordType, "HalfWord", address,
                             ZeroExtend32(value)))

\* Bus::WriteWord
WriteWordOp(S, address, value) ==
  WriteResult(DispatchAccess(S, WriteWordType, "Word", address, value))

----------------------------------------------------------------------------
(* The inputs of the exploration. *)

\* Mode values written: 0x000; 0x058 reset and IRQ at target, repeating;
\* 0x200 and 0x100 the external clocks; 0x401, 0x05B, 0x4A5 and 0xFFFFE707
\* the four sync modes, with the IRQ line high, at target, toggling on
\* overflow, and with bits above 0x1FFF and both clock bits; 0x430 one-shot.
\* Writes of the general runs: <<offset, value>>.
WriteInputs ==
  {<<4, v>> : v \in {U(0, 0), U(0, 88), U(0, 91), U(0, 1189),
                     U(65535, 59143)}}
    \cup {<<20, v>> : v \in {U(0, 256), U(0, 1025)}}
    \cup {<<36, v>> : v \in {U(0, 512), U(0, 1072)}}
    \cup {<<8, v>> : v \in {U(0, 0), U(0, 2), U(1, 65535)}}
    \cup {<<0, U(7, 65535)>>}

ReadInputs == {4, 36}

TickValues == {4, 65535, 2147483640}

PendingValues == {1}

GateInputs == TimerIds \X BOOLEAN

\* The timer 2 scenario: sysclk/8 selected (0x200, 0x600 with the IRQ line
\* high, 0x210 with the IRQ at the target), target 10, 79 ticks and 1 tick.
ScenarioWrites ==
  {<<36, U(0, 512)>>, <<36, U(0, 1536)>>, <<36, U(0, 528)>>,
   <<40, U(0, 10)>>, <<32, U(0, 0)>>}

ScenarioReads == {36, 32}

ScenarioTicks == {79, 1}

ScenarioGates == {2} \X BOOLEAN

\* Bus reads: RAM at 0x1000 and its mirror 0x601000; MEMCTRL 0x1F801000,
\* 0x1F801002, 0x1F801003, 0x1F801020; MEMCTRL2 0x1F801060 and 0x1F801062;
\* the timer 0 target 0x1F801108 and the bytes above it; 0x00800000, which
\* no region holds.
BusReadByteInputs == {4096, 6295552, MEMCTRL_BASE + 3, TIMERS_BASE + 9}

BusReadHalfWordInputs ==
  {4096, MEMCTRL_BASE + 2, MEMCTRL2_BASE + 2, TIMERS_BASE + 10}

BusReadWordInputs ==
  {4096, MEMCTRL_BASE, MEMCTRL_BASE + 32, MEMCTRL2_BASE, TIMERS_BASE + 8,
   RAM_MIRROR_END}

\* Bus writes, <<address, value>>: 0xAB, 0xBEEF and 0xDEADBEEF to RAM; all
\* ones and all zeros to exp1_base, all ones to common_delay; 0x12345678 to
\* the timer 0 target, 5 to the byte above it; 0x888 to the RAM size
\* register, 0xCAFE0001 to 0x1F801062 and to 0x00800000; 0x1FF0 to
\* bios_delay_size.
BusWriteByteInputs == {<<4096, 171>>}

BusWriteHalfWordInputs == {<<4096, 48879>>}

BusWriteWordInputs ==
  {<<4096, U(57005, 48879)>>,
   <<MEMCTRL_BASE, U(65535, 65535)>>, <<MEMCTRL_BASE, U(0, 0)>>,
   <<MEMCTRL_BASE + 32, U(65535, 65535)>>, <<MEMCTRL_BASE + 16, U(0, 8176)>>,
   <<TIMERS_BASE + 8, U(4660, 22136)>>, <<TIMERS_BASE + 9, U(0, 5)>>,
   <<MEMCTRL2_BASE, U(0, 2184)>>, <<MEMCTRL2_BASE + 2, U(51966, 1)>>,
   <<RAM_MIRROR_END, U(51966, 1)>>}

\* The runs of the memory control registers: the accesses above that are
\* outside the RAM and the timers, a byte 0xFF written to bios_delay_size
\* and a halfword 0 to common_delay.
MemctrlReadByteInputs == {MEMCTRL_BASE + 3}

MemctrlReadHalfWordInputs == {MEMCTRL_BASE + 2, MEMCTRL2_BASE + 2}

MemctrlReadWordInputs ==
  {MEMCTRL_BASE, MEMCTRL_BASE + 32, MEMCTRL2_BASE, RAM_MIRROR_END}

MemctrlWriteByteInputs == {<<MEMCTRL_BASE + 16, 255>>}

MemctrlWriteHalfWordInputs == {<<MEMCTRL_BASE + 32, 0>>}

MemctrlWriteWordInputs ==
  {<<MEMCTRL_BASE, U(65535, 65535)>>, <<MEMCTRL_BASE, U(0, 0)>>,
   <<MEMCTRL_BASE + 32, U(65535, 65535)>>, <<MEMCTRL_BASE + 16, U(0, 8176)>>,
   <<MEMCTRL2_BASE, U(0, 2184)>>, <<MEMCTRL2_BASE + 2, U(51966, 1)>>,
   <<RAM_MIRROR_END, U(51966, 1)>>}

\* The TTY port 0x1F802023, words written: 'H', 'i', '!', '\r', '\n', 0x10D,
\* whose low byte is '\r', and 0x100, whose low byte is zero; the POST port
\* 0x1F802041; a byte 'H'.
TtyWriteWordInputs ==
  {<<EXP2_BASE + 35, U(0, v)>> : v \in {72, 105, 33, 13, 10, 269, 256}}
    \cup {<<EXP2_BASE + 65, U(0, 10)>>}

TtyWriteByteInputs == {<<EXP2_BASE + 35, 72>>}

\* The runs with saved states: the modes 0x000, 0xFFFFE707 and 0x401 of
\* timer 0, 0x100 and 0x000 of timer 1, 0x200 of timer 2; the gates of
\* timers 0 and 1; 4 ticks.
StateWrites ==
  {<<4, v>> : v \in {U(0, 0), U(65535, 59143), U(0, 1025)}}
    \cup {<<20, v>> : v \in {U(0, 256), U(0, 0)}}
    \cup {<<36, U(0, 512)>>}

StateGates == {0, 1} \X BOOLEAN

StateTicks == {4}

\* The runs with pending ticks: the counter of timer 0 written 0x7FFFF, its
\* mode 0x058 and its target 2, the mode 0x200 of timer 2 and its counter 3;
\* the counter, the mode and the target of timer 0 and the mode of timer 2
\* read; 4 and 65535 ticks.
SyncWrites ==
  {<<0, U(7, 65535)>>, <<4, U(0, 88)>>, <<8, U(0, 2)>>, <<36, U(0, 512)>>,
   <<32, U(0, 3)>>}

SyncReads == {0, 4, 8, 32, 36}

SyncTicks == {4, 65535}

\* Ticks left pending: one, and enough for a tick of sysclk/8.
SyncPending == {1, 9}

----------------------------------------------------------------------------
(* The state machine of the timers. *)

\* What a byte and a 32-bit word of memory can hold, a word as <<hi, lo>>.
Bytes == 0 .. 255

Words == (0 .. 65535) \X (0 .. 65535)

\* The memory a Timers object is constructed in: for each timer the three
\* words and the five bytes of its CounterState, then the word of the carry.
Memories ==
  [states : [TimerIds ->
               [mode : Words, counter : Words, target : Words,
                gate : Bytes, use_external_clock : Bytes,
                external_counting_enabled : Bytes,
                counting_enabled : Bytes, irq_done : Bytes]],
   carry : Words]

\* Memory that holds byte everywhere, but flags[i] in the use_external_clock
\* of timer i.
Filled(byte, flags) ==
  [states |-> [i \in TimerIds |->
                 [mode |-> U(257 * byte, 257 * byte),
                  counter |-> U(257 * byte, 257 * byte),
                  target |-> U(257 * byte, 257 * byte),
                  gate |-> byte, use_external_clock |-> flags[i],
                  external_counting_enabled |-> byte,
                  counting_enabled |-> byte, irq_done |-> byte]],
   carry |-> U(257 * byte, 257 * byte)]

\* Memory an earlier Timers object was in when it was reset: zero but for
\* counting_enabled, and flags[i] in the use_external_clock of timer i.
Reused(flags) ==
  [Filled(0, flags) EXCEPT
     !.states = [i \in TimerIds |-> [@[i] EXCEPT !.counting_enabled = 1]]]

\* The fills and the use_external_clock bytes of the memories explored.
MemoryBytes == {0, 170, 255}

FlagBytes == {0, 1, 255}

\* The memories explored, of Memories: Reset assigns every member but
\* use_external_clock, so of a memory only those three bytes reach the
\* machine that runs.
UninitialisedMemory ==
  {Filled(byte, flags) :
     byte \in MemoryBytes, flags \in [TimerIds -> FlagBytes]}
    \cup {Reused(flags) : flags \in [TimerIds -> FlagBytes]}

\* Timers::Timers, with the interrupt controller and the system it is
\* given: timers.cpp initialises no member, so the object holds what the
\* memory held, any of Memories (all zero when the header initialises the
\* members); no request, nothing pending.
ZeroTimers(memory) ==
  [states |-> memory.states, carry |-> memory.carry,
   irqs |-> [l \in IrqLines |-> 0], downcount |-> TickCountMax,
   pending |-> 0, sysclk |-> 0]

\* The use_external_clock flags the program can read of the object T that
\* was never assigned them: byte 0 is false and byte 1 true; any other byte
\* is no value of bool, and the flag read of it is either.
UninitialisedFlags(T) ==
  {flags \in [TimerIds -> BOOLEAN] :
     \A i \in TimerIds :
       T.states[i].use_external_clock \in {0, 1}
         => flags[i] = (T.states[i].use_external_clock = 1)}

\* The object T with its use_external_clock members read as flags.
WithFlags(T, flags) ==
  [T EXCEPT !.states = [i \in TimerIds |->
                          [@[i] EXCEPT !.use_external_clock = flags[i]]]]

ZeroBus == [ram |-> [c \in RamCells |-> 0],
            MEMCTRL |-> [i \in MemctrlRegs |-> U(0, 0)],
            ram_size_reg |-> U(0, 0),
            bios_access_time |-> <<0, 0, 0>>,
            cdrom_access_time |-> <<0, 0, 0>>,
            spu_access_time |-> <<0, 0, 0>>,
            tty_line_buffer |-> <<>>, tty_log |-> <<>>]

\* Nothing was saved yet.
NoState == [sw |-> [timers |-> <<>>, bus |-> <<>>]]

\* The machine once System::Reset has reset the bus and the timers.
PowerOn(memory, flags) ==
  BusResetOp(ResetOp(WithFlags(ZeroTimers(memory), flags)
                       @@ ZeroBus @@ NoState))

\* What is remembered of the machine T when timer i is set up; requests is
\* the number of interrupt requests of timer i its last mode write or Reset
\* found.
MarkOf(T, i, requests) ==
  [ticks |-> T.sysclk, irqs |-> T.irqs[TMR0 + i],
   zero |-> T.states[i].counter = 0, counter |-> T.states[i].counter,
   carry |-> T.carry, requests |-> requests]

\* The operations that store a mode: Reset, a DoState that reads, and the
\* mode writes.
StoresMode(op, at) ==
  \/ op = "Reset"
  \/ op = "DoState" /\ at = 1
  \/ op = "Write" /\ at % 16 = 4
  \/ op = "WriteWord" /\ at >= TIMERS_BASE /\ at < TIMERS_BASE + TIMERS_SIZE
       /\ Field(at - TIMERS_BASE, 2, 2) = 1

Install(T) ==
  /\ m_states' = T.states
  /\ m_sysclk_div_8_carry' = T.carry
  /\ irq_requests' = T.irqs
  /\ downcount' = T.downcount
  /\ pending_ticks' = T.pending
  /\ sysclk' = T.sysclk
  /\ m_ram' = T.ram
  /\ m_MEMCTRL' = T.MEMCTRL
  /\ m_ram_size_reg' = T.ram_size_reg
  /\ m_bios_access_time' = T.bios_access_time
  /\ m_cdrom_access_time' = T.cdrom_access_time
  /\ m_spu_access_time' = T.spu_access_time
  /\ m_tty_line_buffer' = T.tty_line_buffer
  /\ tty_log' = T.tty_log
  /\ sw' = T.sw

\* The last keep operations of tr.
Recent(tr, keep) ==
  IF Len(tr) <= keep THEN tr ELSE SubSeq(tr, Len(tr) - keep + 1, Len(tr))

Record(b, op, at, arg, ret, found) ==
  /\ ops' = ops + 1
  /\ last' = found
  /\ trace' = Recent(Append(trace, [op |-> op, at |-> at, arg |-> arg,
                                    ret |-> ret]),
                     b.keep)

Init ==
  \E memory \in UninitialisedMemory :
  \E flags \in UninitialisedFlags(ZeroTimers(memory)) :
    /\ m_states = PowerOn(memory, flags).states
    /\ m_sysclk_div_8_carry = 0
    /\ irq_requests = [l \in IrqLines |-> 0]
    /\ downcount = TickCountMax
    /\ pending_ticks = 0
    /\ sysclk = 0
    /\ m_ram = PowerOn(memory, flags).ram
    /\ m_MEMCTRL = PowerOn(memory, flags).MEMCTRL
    /\ m_ram_size_reg = PowerOn(memory, flags).ram_size_reg
    /\ m_bios_access_time = PowerOn(memory, flags).bios_access_time
    /\ m_cdrom_access_time = PowerOn(memory, flags).cdrom_access_time
    /\ m_spu_access_time = PowerOn(memory, flags).spu_access_time
    /\ m_tty_line_buffer = PowerOn(memory, flags).tty_line_buffer
    /\ tty_log = PowerOn(memory, flags).tty_log
    /\ sw = PowerOn(memory, flags).sw
    /\ mark = [i \in TimerIds |-> MarkOf(PowerOn(memory, flags), i, 0)]
    /\ last = PowerOn(memory, flags)
    /\ trace = <<>>
    /\ ops = 0

\* One operation done: r.T the machine after it, r.at the machine it found,
\* r.ret what it returned; the timers in marked were set up by it.
Step(b, op, at, arg, r, marked) ==
  /\ Install(r.T)
  /\ mark' = [i \in TimerIds |->
                IF i \in marked
                THEN MarkOf(r.T, i, IF StoresMode(op, at)
                                    THEN r.at.irqs[TMR0 + i]
                                    ELSE mark[i].requests)
                ELSE mark[i]]
  /\ Record(b, op, at, arg, r.ret, r.at)

Reset(b) ==
  /\ ops < b.max
  /\ Step(b, "Reset", 0, U(0, 0), Void(ResetOp(Pack), Pack), TimerIds)

SetGate(b, inputs) ==
  \E in \in inputs :
    /\ ops < b.max
    /\ Step(b, "SetGate", in[1], ToU32(B2N(in[2])),
            Void(SetGateOp(Pack, in[1], in[2]), Pack),
            IF SetGateOp(Pack, in[1], in[2]) = Pack THEN {} ELSE {in[1]})

Execute(b, inputs) ==
  \E sysclk_ticks \in inputs :
    /\ ops < b.max
    /\ Step(b, "Execute", 0, ToU32(sysclk_ticks),
            Void(ExecuteOp(Pack, sysclk_ticks), Pack), {})

\* Timers::DoState: sw writes, or reads what a DoState wrote before; it
\* returns true.
DoState(b) ==
  \E reading \in BOOLEAN :
    /\ ops < b.max
    /\ reading => sw.timers # <<>>
    /\ Step(b, "DoState", B2N(reading), U(0, 0),
            [T |-> DoStateOp(Pack, reading), at |-> Pack, ret |-> U(0, 1)],
            IF reading THEN TimerIds ELSE {})

\* The CPU runs instructions: ticks accrue until the next Synchronize.
AddPendingTicks(b, inputs) ==
  \E n \in inputs :
    /\ ops < b.max
    /\ pending_ticks = 0
    /\ Step(b, "AddPendingTicks", 0, ToU32(n),
            Void([Pack EXCEPT !.pending = n], Pack), {})

Read(b, inputs) ==
  \E offset \in inputs :
    /\ ops < b.max
    /\ Step(b, "Read", offset, U(0, 0), ReadRegister(Pack, offset), {})

\* The timers a register write at offset sets up.
Marked(offset) ==
  IF offset % 16 \in {0, 4, 8} THEN {Field(offset, 4, 2)} ELSE {}

Write(b, inputs) ==
  \E in \in inputs :
    /\ ops < b.max
    /\ Step(b, "Write", in[1], in[2], WriteRegister(Pack, in[1], in[2]),
            Marked(in[1]))

\* Bus::Reset
BusReset(b) ==
  /\ ops < b.max
  /\ Step(b, "BusReset", 0, U(0, 0), Void(BusResetOp(Pack), Pack), {})

\* Bus::DoState
BusDoState(b) ==
  \E reading \in BOOLEAN :
    /\ ops < b.max
    /\ reading => sw.bus # <<>>
    /\ Step(b, "BusDoState", B2N(reading), U(0, 0),
            [T |-> BusDoStateOp(Pack, reading), at |-> Pack, ret |-> U(0, 1)],
            {})

\* The timers a bus access sets up: DoWriteTimers writes the register at
\* the aligned offset.
BusMarked(type, address) ==
  IF type = "Write" /\ address >= TIMERS_BASE
     /\ address < TIMERS_BASE + TIMERS_SIZE
  THEN Marked(FixupUnalignedWordAccessW32(address - TIMERS_BASE,
                                          U(0, 0)).offset)
  ELSE {}

\* Bus::ReadByte
ReadByte(b, inputs) ==
  \E address \in inputs :
    /\ ops < b.max
    /\ Step(b, "ReadByte", address, U(0, 0),
            ReadByteOp(Pack, address), BusMarked(ReadByteType, address))

\* Bus::ReadHalfWord
ReadHalfWord(b, inputs) ==
  \E address \in inputs :
    /\ ops < b.max
    /\ Step(b, "ReadHalfWord", address, U(0, 0),
            ReadHalfWordOp(Pack, address),
            BusMarked(ReadHalfWordType, address))

\* Bus::ReadWord
ReadWord(b, inputs) ==
  \E address \in inputs :
    /\ ops < b.max
    /\ Step(b, "ReadWord", address, U(0, 0),
            ReadWordOp(Pack, address), BusMarked(ReadWordType, address))

\* Bus::WriteByte
WriteByte(b, inputs) ==
  \E in \in inputs :
    /\ ops < b.max
    /\ Step(b, "WriteByte", in[1], ZeroExtend32(in[2]),
            WriteByteOp(Pack, in[1], in[2]), BusMarked(WriteByteType, in[1]))

\* Bus::WriteHalfWord
WriteHalfWord(b, inputs) ==
  \E in \in inputs :
    /\ ops < b.max
    /\ Step(b, "WriteHalfWord", in[1], ZeroExtend32(in[2]),
            WriteHalfWordOp(Pack, in[1], in[2]),
            BusMarked(WriteHalfWordType, in[1]))

\* Bus::WriteWord
WriteWord(b, inputs) ==
  \E in \in inputs :
    /\ ops < b.max
    /\ Step(b, "WriteWord", in[1], in[2],
            WriteWordOp(Pack, in[1], in[2]), BusMarked(WriteWordType, in[1]))

\* The general runs remember their last two operations.
General == [max |-> MaxOps, keep |-> 2]

Next ==
  \/ Reset(General)
  \/ SetGate(General, GateInputs)
  \/ Execute(General, TickValues)
  \/ AddPendingTicks(General, PendingValues)
  \/ Read(General, ReadInputs)
  \/ Write(General, WriteInputs)

Spec == Init /\ [][Next]_vars

\* The scenario runs remember every operation.
Scenario == [max |-> MaxScenarioOps, keep |-> MaxScenarioOps + 1]

NextScenario ==
  \/ Reset(Scenario)
  \/ SetGate(Scenario, ScenarioGates)
  \/ Execute(Scenario, ScenarioTicks)
  \/ AddPendingTicks(Scenario, PendingValues)
  \/ Read(Scenario, ScenarioReads)
  \/ Write(Scenario, ScenarioWrites)

SpecScenario == Init /\ [][NextScenario]_vars

\* The bus runs remember every access.
BusRun == [max |-> MaxBusOps, keep |-> MaxBusOps + 1]

NextBus ==
  \/ BusReset(BusRun)
  \/ BusDoState(BusRun)
  \/ ReadByte(BusRun, BusReadByteInputs)
  \/ ReadHalfWord(BusRun, BusReadHalfWordInputs)
  \/ ReadWord(BusRun, BusReadWordInputs)
  \/ WriteByte(BusRun, BusWriteByteInputs)
  \/ WriteHalfWord(BusRun, BusWriteHalfWordInputs)
  \/ WriteWord(BusRun, BusWriteWordInputs)

SpecBus == Init /\ [][NextBus]_vars

\* The TTY runs remember every access.
TtyRun == [max |-> MaxTtyOps, keep |-> MaxTtyOps + 1]

NextTty ==
  \/ WriteWord(TtyRun, TtyWriteWordInputs)
  \/ WriteByte(TtyRun, TtyWriteByteInputs)

SpecTty == Init /\ [][NextTty]_vars

\* The runs with saved states remember their last two operations.
StateRun == [max |-> MaxStateOps, keep |-> 2]

NextState ==
  \/ Reset(StateRun)
  \/ DoState(StateRun)
  \/ SetGate(StateRun, StateGates)
  \/ Execute(StateRun, StateTicks)
  \/ Write(StateRun, StateWrites)

SpecState == Init /\ [][NextState]_vars

\* The runs of the memory control registers remember every access.
MemctrlRun == [max |-> MaxMemctrlOps, keep |-> MaxMemctrlOps + 1]

NextMemctrl ==
  \/ BusReset(MemctrlRun)
  \/ BusDoState(MemctrlRun)
  \/ ReadByte(MemctrlRun, MemctrlReadByteInputs)
  \/ ReadHalfWord(MemctrlRun, MemctrlReadHalfWordInputs)
  \/ ReadWord(MemctrlRun, MemctrlReadWordInputs)
  \/ WriteByte(MemctrlRun, MemctrlWriteByteInputs)
  \/ WriteHalfWord(MemctrlRun, MemctrlWriteHalfWordInputs)
  \/ WriteWord(MemctrlRun, MemctrlWriteWordInputs)

SpecMemctrl == Init /\ [][NextMemctrl]_vars

\* The runs with pending ticks remember their last two operations.
SyncRun == [max |-> MaxSyncOps, keep |-> 2]

NextSync ==
  \/ Execute(SyncRun, SyncTicks)
  \/ AddPendingTicks(SyncRun, SyncPending)
  \/ Read(SyncRun, SyncReads)
  \/ Write(SyncRun, SyncWrites)

SpecSync == Init /\ [][NextSync]_vars

----------------------------------------------------------------------------
(* What the properties below read of the run. *)

NoEntry == [op |-> "Init", at |-> 0, arg |-> U(0, 0), ret |-> U(0, 0)]

\* The last operation, and the one before it.
LastOp == IF Len(trace) >= 1 THEN trace[Len(trace)] ELSE NoEntry

PrevOp == IF Len(trace) >= 2 THEN trace[Len(trace) - 1] ELSE NoEntry

TimerOf(offset) == Field(offset, 4, 2)

IsModeWrite(e) == e.op = "Write" /\ e.at % 16 = 4

IsModeRead(e) == e.op = "Read" /\ e.at % 16 = 4

\* Interrupt requests signalled for timer i since it was last set up, and
\* the sysclk ticks Execute was given since then.
IrqsSince(i) == irq_requests[TMR0 + i] - mark[i].irqs

TicksSince(i) == sysclk - mark[i].ticks

\* The bus entry points, and the read of the same width as a write.
BusReads == {"ReadByte", "ReadHalfWord", "ReadWord"}

BusWrites == {"WriteByte", "WriteHalfWord", "WriteWord"}

ReadOfWidth(op) ==
  CASE op = "WriteByte" -> "ReadByte"
    [] op = "WriteHalfWord" -> "ReadHalfWord"
    [] op = "WriteWord" -> "ReadWord"
    [] OTHER -> "None"

\* v truncated to the width the entry point op returns.
Truncated(op, v) ==
  CASE op = "ReadByte" -> Truncate8(v)
    [] op = "ReadHalfWord" -> Truncate16(v)
    [] OTHER -> v

InRAM(e) == e.op \in BusReads \cup BusWrites /\ e.at < RAM_MIRROR_END

InMEMCTRL(e) ==
  /\ e.op \in BusReads \cup BusWrites
  /\ e.at >= MEMCTRL_BASE /\ e.at < MEMCTRL_BASE + MEMCTRL_SIZE

InTIMERS(e) ==
  /\ e.op \in BusReads \cup BusWrites
  /\ e.at >= TIMERS_BASE /\ e.at < TIMERS_BASE + TIMERS_SIZE

InMEMCTRL2(e) ==
  /\ e.op \in BusReads \cup BusWrites
  /\ e.at >= MEMCTRL2_BASE /\ e.at < MEMCTRL2_BASE + MEMCTRL2_SIZE

InEXP2(e) ==
  /\ e.op \in BusReads \cup BusWrites
  /\ e.at >= EXP2_BASE /\ e.at < EXP2_BASE + EXP2_SIZE

\* The access type the entry point op dispatches.
TypeOf(op) ==
  CASE op = "ReadByte" -> ReadByteType
    [] op = "ReadHalfWord" -> ReadHalfWordType
    [] op = "ReadWord" -> ReadWordType
    [] op = "WriteByte" -> WriteByteType
    [] op = "WriteHalfWord" -> WriteHalfWordType
    [] OTHER -> WriteWordType

\* The write mask of MEMCTRL register i.
WriteMaskOf(i) ==
  IF i = common_delay THEN COMDELAY_WRITE_MASK ELSE MEMDELAY_WRITE_MASK

----------------------------------------------------------------------------
(* C1 *)

\* C1: right after a write to a timer's mode register that timer has
\* counter = 0 and irq_done = FALSE, and interrupt_request_n is set when the
\* written value has irq_pulse_n set.
C1_ModeWriteResets ==
  IsModeWrite(LastOp) =>
    LET cs == m_states[TimerOf(LastOp.at)]
    IN /\ cs.counter = 0
       /\ cs.irq_done = FALSE
       /\ (irq_pulse_n(LastOp.arg[2] % 8192) => interrupt_request_n(cs.mode))

----------------------------------------------------------------------------
(* C2 *)

\* C2: a counting, sysclk-clocked timer with irq_at_target and
\* reset_at_target, target T > 0, that started from counter 0 and has been
\* given k * T ticks (k >= 1) through Execute, in any number of calls, has
\* signalled exactly k interrupt requests.
C2_OneRequestPerTarget ==
  \A i \in TimerIds :
    LET cs == m_states[i]
    IN (/\ mark[i].zero
        /\ irq_at_target(cs.mode) /\ reset_at_target(cs.mode)
        /\ cs.target > 0
        /\ cs.counting_enabled /\ ~cs.external_counting_enabled
        /\ sysclk < SysclkCap
        /\ pending_ticks = 0
        /\ TicksSince(i) >= cs.target
        /\ TicksSince(i) % cs.target = 0)
       => IrqsSince(i) = TicksSince(i) \div cs.target

----------------------------------------------------------------------------
(* C3 *)

\* C3: a bus write of v to a RAM address through WriteByte, WriteHalfWord or
\* WriteWord, followed by a bus read of the same width at the same address,
\* returns v.
C3_RamWriteThenRead ==
  (InRAM(PrevOp) /\ PrevOp.op \in BusWrites
     /\ LastOp.op = ReadOfWidth(PrevOp.op) /\ LastOp.at = PrevOp.at)
    => LastOp.ret = PrevOp.arg

----------------------------------------------------------------------------
(* C4 *)

\* C4: a read of a timer's mode register returns the mode bits as they were
\* at the read, leaves reached_target and reached_overflow cleared and every
\* other mode bit, the counter and the target unchanged; a second read right
\* after it returns both flags as 0.
C4_ModeReadClearsFlags ==
  IsModeRead(LastOp) =>
    LET t == TimerOf(LastOp.at)
        before == last.states[t]
        cs == m_states[t]
    IN /\ LastOp.ret = ToU32(before.mode)
       /\ ~reached_target(cs.mode) /\ ~reached_overflow(cs.mode)
       /\ Field(cs.mode, 0, 11) = Field(before.mode, 0, 11)
       /\ cs.mode < 2048
       /\ cs.counter = before.counter
       /\ cs.target = before.target
       /\ (PrevOp = [LastOp EXCEPT !.ret = PrevOp.ret]
             => Field(LastOp.ret[2], 11, 2) = 0)

\* A mode read that returned a reached flag, read again at once.
C4_Witness ==
  /\ IsModeRead(LastOp)
  /\ PrevOp = [LastOp EXCEPT !.ret = PrevOp.ret]
  /\ Field(PrevOp.ret[2], 11, 2) # 0
  /\ Field(LastOp.ret[2], 11, 2) = 0

----------------------------------------------------------------------------
(* C5 *)

\* The word-aligned register a read at offset o of a register file reads
\* under the rule of the claim, in the machine the read found.
AlignedMemctrl(o) == last.MEMCTRL[(o - (o % 4)) \div 4]

AlignedTimers(o) == ReadRegister(last, o - (o % 4)).ret

\* C5: a bus read of MEMCTRL or TIMERS at a register offset o with
\* (o & 3) != 0 returns the word-aligned register at (o & ~3) shifted right
\* by (o & 3) * 8 bits, truncated to the width read.
C5_UnalignedReadShiftsRight ==
  /\ (InMEMCTRL(LastOp) /\ LastOp.op \in BusReads
        /\ (LastOp.at - MEMCTRL_BASE) % 4 # 0)
       => LastOp.ret =
            Truncated(LastOp.op,
                      ShrU32(AlignedMemctrl(LastOp.at - MEMCTRL_BASE),
                             ((LastOp.at - MEMCTRL_BASE) % 4) * 8))
  /\ (InTIMERS(LastOp) /\ LastOp.op \in BusReads
        /\ (LastOp.at - TIMERS_BASE) % 4 # 0)
       => LastOp.ret =
            Truncated(LastOp.op,
                      ShrU32(AlignedTimers(LastOp.at - TIMERS_BASE),
                             ((LastOp.at - TIMERS_BASE) % 4) * 8))

----------------------------------------------------------------------------
(* C6 *)

\* The last three accesses are a word read of MEMCTRL register i, a word
\* write to it and a word read of it again.
ReadWriteRead(i) ==
  /\ Len(trace) >= 3
  /\ trace[Len(trace) - 2].op = "ReadWord"
  /\ trace[Len(trace) - 2].at = MEMCTRL_BASE + 4 * i
  /\ PrevOp.op = "WriteWord" /\ PrevOp.at = MEMCTRL_BASE + 4 * i
  /\ LastOp.op = "ReadWord" /\ LastOp.at = MEMCTRL_BASE + 4 * i

\* C6: a word-aligned write of value to MEMCTRL register i that held old,
\* followed by a read of the register, returns
\* (old & ~write_mask) | (value & write_mask), write_mask being the COMDELAY
\* mask for register 8 and the MEMDELAY mask otherwise; and no bus write
\* changes a bit of a MEMCTRL register outside its mask.
C6_MemctrlWriteIsMasked ==
  /\ \A i \in MemctrlRegs :
       ReadWriteRead(i) =>
         LastOp.ret =
           OrU32(AndU32(trace[Len(trace) - 2].ret, NotU32(WriteMaskOf(i))),
                 AndU32(PrevOp.arg, WriteMaskOf(i)))
  /\ LastOp.op \in BusWrites =>
       \A i \in MemctrlRegs :
         AndU32(m_MEMCTRL[i], NotU32(WriteMaskOf(i)))
           = AndU32(last.MEMCTRL[i], NotU32(WriteMaskOf(i)))

\* exp1_base read as 0x1F000000, written with 0 and read again as
\* 0x10000000: bit 28, outside the mask, is kept and the other bits are
\* taken from the value written.
C6_Witness ==
  /\ ReadWriteRead(exp1_base)
  /\ trace[Len(trace) - 2].ret = U(7936, 0)
  /\ PrevOp.arg = U(0, 0)
  /\ LastOp.ret = U(4096, 0)
  /\ m_MEMCTRL[exp1_base] = U(4096, 0)

----------------------------------------------------------------------------
(* C7 *)

\* The minimum of a non-empty set of tick counts.
MinOf(S) == CHOOSE x \in S : \A y \in S : x <= y

\* Timer i's own candidates: the ticks to its target, the ticks to overflow.
OwnTicks(cs) ==
  {cs.target - cs.counter :
     x \in {1} \cap (IF irq_at_target(cs.mode) /\ cs.counter < cs.target
                      THEN {1} ELSE {})}
    \cup
  {65535 - cs.counter :
     x \in {1} \cap (IF irq_on_overflow(cs.mode) /\ cs.counter < cs.target
                      THEN {1} ELSE {})}

\* What the timers that count (timers 0 and 1: on sysclk) contribute; timer
\* 2 on its external clock contributes an eighth of its own minimum.
Contributions ==
  {IF i = 2 /\ m_states[i].external_counting_enabled
   THEN Max(1, MinOf(OwnTicks(m_states[i])) \div 8)
   ELSE MinOf(OwnTicks(m_states[i])) :
     i \in {j \in TimerIds :
              /\ m_states[j].counting_enabled
              /\ ~(j < 2 /\ m_states[j].external_counting_enabled)
              /\ OwnTicks(m_states[j]) # {}}}

\* C7: after every Execute the downcount published is the minimum of the
\* timers' own minima, only timer 2's own minimum being divided by 8, and
\* the sentinel maximum when no timer contributes.
C7_DowncountIsMinimum ==
  LastOp.op = "Execute" =>
    downcount = IF Contributions = {} THEN TickCountMax
                ELSE MinOf(Contributions)

----------------------------------------------------------------------------
(* C8 *)

\* Timer 2 set up with mode 0x200 (only the sysclk/8 clock) and target 10.
S5_Setup == <<[op |-> "Write", at |-> 36, arg |-> U(0, 512), ret |-> U(0, 0)],
              [op |-> "Write", at |-> 40, arg |-> U(0, 10), ret |-> U(0, 0)]>>

S5_Execute79 == [op |-> "Execute", at |-> 0, arg |-> U(0, 79), ret |-> U(0, 0)]

S5_Execute1 == [op |-> "Execute", at |-> 0, arg |-> U(0, 1), ret |-> U(0, 0)]

\* C8: after that setup Execute(79) leaves counter = 9 and carry = 7, and a
\* following Execute(1) leaves counter = 10 and carry = 0 and signals an
\* interrupt request for timer 2.
C8_Timer2DividedClock ==
  /\ trace = S5_Setup \o <<S5_Execute79>> =>
        m_states[2].counter = 9 /\ m_sysclk_div_8_carry = 7
  /\ trace = S5_Setup \o <<S5_Execute79, S5_Execute1>> =>
        /\ m_states[2].counter = 10
        /\ m_sysclk_div_8_carry = 0
        /\ irq_requests[TMR0 + 2] > last.irqs[TMR0 + 2]

----------------------------------------------------------------------------
(* C9 *)

\* The sync table: counting_enabled as a function of the mode and the gate.
SyncTableHolds(cs) ==
  /\ ~sync_enable(cs.mode) => cs.counting_enabled
  /\ sync_enable(cs.mode) /\ sync_mode(cs.mode) = PauseOnGate
       => cs.counting_enabled = ~cs.gate
  /\ sync_enable(cs.mode) /\ sync_mode(cs.mode) = ResetOnGate
       => cs.counting_enabled
  /\ sync_enable(cs.mode) /\ sync_mode(cs.mode) = ResetAndRunOnGate
       => cs.counting_enabled = cs.gate

\* C9: every timer's counting_enabled follows the sync table; a rising gate
\* edge in FreeRunOnGate clears sync_enable and the timer counts, and
\* sync_enable stays clear until the next write of the mode register.
C9_CountingFollowsSyncTable ==
  /\ \A i \in TimerIds : SyncTableHolds(m_states[i])
  /\ \A i \in TimerIds :
       (/\ LastOp.op = "SetGate" /\ LastOp.at = i /\ LastOp.arg = U(0, 1)
        /\ ~last.states[i].gate
        /\ sync_enable(last.states[i].mode)
        /\ sync_mode(last.states[i].mode) = FreeRunOnGate)
       => ~sync_enable(m_states[i].mode) /\ m_states[i].counting_enabled
  /\ \A i \in TimerIds :
       (/\ ~(IsModeWrite(LastOp) /\ TimerOf(LastOp.at) = i)
        /\ ~sync_enable(last.states[i].mode))
       => ~sync_enable(m_states[i].mode)

\* A timer in FreeRunOnGate whose gate rose and fell again: it counts.
C9_Witness ==
  \E i \in TimerIds :
    /\ PrevOp.op = "SetGate" /\ PrevOp.at = i /\ PrevOp.arg = U(0, 1)
    /\ LastOp.op = "SetGate" /\ LastOp.at = i /\ LastOp.arg = U(0, 0)
    /\ sync_mode(m_states[i].mode) = FreeRunOnGate
    /\ ~sync_enable(m_states[i].mode)
    /\ ~m_states[i].gate
    /\ m_states[i].counting_enabled

----------------------------------------------------------------------------
(* C10 *)

\* C10: every timer's counter is below 0x10000 in every reachable state.
C10_CounterIs16Bit == \A i \in TimerIds : m_states[i].counter < 65536

\* A counter written with a value above 0xFFFF, and a counter that was
\* given 0x7FFFFFF8 ticks.
C10_Witness ==
  /\ PrevOp.op = "Write" /\ PrevOp.at % 16 = 0 /\ PrevOp.arg[1] > 0
  /\ LastOp.op = "Execute" /\ LastOp.arg = ToU32(2147483640)
  /\ \E i \in TimerIds : m_states[i].counter > 0

----------------------------------------------------------------------------
(* C11 *)

\* C11: in every reachable state, a timer whose external_counting_enabled
\* is set has use_external_clock set and counting_enabled set.
C11_ExternalImpliesClockAndCounting ==
  \A i \in TimerIds :
    m_states[i].external_counting_enabled
      => (m_states[i].use_external_clock /\ m_states[i].counting_enabled)

\* Timer 1 counted on its external clock when DoState saved it, was reset,
\* and DoState read the saved state back: it counts on its external clock
\* again.
C11_Witness ==
  /\ PrevOp.op = "Reset"
  /\ LastOp.op = "DoState" /\ LastOp.at = 1
  /\ ~last.states[1].external_counting_enabled
  /\ m_states[1].external_counting_enabled
  /\ m_states[1].use_external_clock
  /\ m_states[1].counting_enabled

----------------------------------------------------------------------------
(* C12 *)

\* An access no region holds, or one to MEMCTRL2 off its register.
Invalid(e) ==
  /\ e.op \in BusReads \cup BusWrites
  /\ \/ ~(InRAM(e) \/ InMEMCTRL(e) \/ InMEMCTRL2(e) \/ InTIMERS(e)
          \/ InEXP2(e))
     \/ InMEMCTRL2(e) /\ e.at # MEMCTRL2_BASE

\* C12: an invalid bus access changes nothing of the machine and costs one
\* tick: DoInvalidAccess returns 1, a read yields 0xFFFFFFFF (cut to the
\* width read), a write is dropped; a MEMCTRL2 read at a non-zero offset
\* returns 0xFFFFFFFF and a MEMCTRL2 write at a non-zero offset leaves the
\* RAM size register as it was.
C12_InvalidAccessIsInert ==
  Invalid(LastOp)
    => /\ Pack = last
       /\ DoInvalidAccess(TypeOf(LastOp.op), LastOp.arg).ticks = 1
       /\ LastOp.op \in BusReads
            => LastOp.ret = Truncated(LastOp.op, U(65535, 65535))
       /\ LastOp.op = "WriteWord"
            => DoInvalidAccess(TypeOf(LastOp.op), LastOp.arg).value
                 = LastOp.arg

\* The RAM size register was written, then MEMCTRL2 was written at offset
\* 2 and read at offset 2: the register holds the first value.
C12_Witness ==
  /\ Len(trace) = 3
  /\ trace[1].op = "WriteWord" /\ trace[1].at = MEMCTRL2_BASE
  /\ trace[2].op = "WriteWord" /\ trace[2].at = MEMCTRL2_BASE + 2
  /\ trace[3].op = "ReadHalfWord" /\ trace[3].at = MEMCTRL2_BASE + 2
  /\ trace[3].ret = U(0, 65535)
  /\ m_ram_size_reg = trace[1].arg
  /\ m_ram_size_reg # BusResetOp(ZeroBus).ram_size_reg

----------------------------------------------------------------------------
(* C13 *)

\* The clock bit of timer i that its mode stores: bit 1 of clock_source
\* for timer 2, bit 0 for the others.
ExternalClockOf(i, mode) ==
  IF i = 2 THEN clock_source(mode) \div 2 = 1 ELSE clock_source(mode) % 2 = 1

\* C13: in every reachable state, use_external_clock of timer i is the
\* clock bit of the mode timer i stores, also after a Reset that follows
\* a mode write selecting an external clock.
C13_ExternalClockFollowsMode ==
  \A i \in TimerIds :
    m_states[i].use_external_clock = ExternalClockOf(i, m_states[i].mode)

----------------------------------------------------------------------------
(* C14 *)

\* C14: after Reset and after any MEMCTRL writes, also those that store
\* the value already there, the cached BIOS, CDROM and SPU access times
\* are CalculateMemoryTiming of the stored bios, cdrom and spu delay
\* registers with the stored common_delay.
C14_TablesFollowRegisters ==
  /\ m_bios_access_time
       = CalculateMemoryTiming(m_MEMCTRL[bios_delay_size],
                               m_MEMCTRL[common_delay])
  /\ m_cdrom_access_time
       = CalculateMemoryTiming(m_MEMCTRL[cdrom_delay_size],
                               m_MEMCTRL[common_delay])
  /\ m_spu_access_time
       = CalculateMemoryTiming(m_MEMCTRL[spu_delay_size],
                               m_MEMCTRL[common_delay])

\* common_delay was written twice with the same value, the second write
\* finding it stored, then bios_delay_size: no table is the one of Reset,
\* and the BIOS table is not the one the first write left.
C14_Witness ==
  /\ Len(trace) = 3
  /\ trace[1].op = "WriteWord" /\ trace[1].at = MEMCTRL_BASE + 32
  /\ trace[2] = trace[1]
  /\ trace[3].op = "WriteWord" /\ trace[3].at = MEMCTRL_BASE + 16
  /\ m_MEMCTRL[common_delay] # BusResetOp(ZeroBus).MEMCTRL[common_delay]
  /\ m_bios_access_time # BusResetOp(ZeroBus).bios_access_time
  /\ m_bios_access_time # last.bios_access_time
  /\ m_cdrom_access_time # BusResetOp(ZeroBus).cdrom_access_time
  /\ m_spu_access_time # BusResetOp(ZeroBus).spu_access_time

----------------------------------------------------------------------------
(* C15 *)

\* The sysclk ticks timer 2 was given since it was set up, with the carry
\* its setup found.
CarriedTicks == mark[2].carry + TicksSince(2)

\* C15: the carry is in 0..7 in every reachable state; while timer 2 counts
\* on sysclk/8, over the Execute calls since its setup the ticks added to it
\* are floor((c0 + sum of sysclk_ticks) / 8) and the carry is
\* (c0 + sum of sysclk_ticks) mod 8, c0 the carry at the setup, however the
\* ticks were split over the calls. The ticks added are read off the
\* counter, which wraps modulo 0xFFFF when it does not reset at the target.
C15_CarryKeepsEveryTick ==
  /\ m_sysclk_div_8_carry \in 0 .. 7
  /\ m_states[2].external_counting_enabled /\ sysclk < SysclkCap
       => /\ m_sysclk_div_8_carry = CarriedTicks % 8
          /\ ~reset_at_target(m_states[2].mode)
               => m_states[2].counter
                    = (mark[2].counter + CarriedTicks \div 8) % 65535

\* Timer 2 was set up with a carry of 7 left by Execute(79); Execute(1)
\* then gave it one tick of sysclk/8.
C15_Witness ==
  /\ PrevOp.op = "Write" /\ TimerOf(PrevOp.at) = 2
  /\ LastOp.op = "Execute" /\ LastOp.arg = U(0, 1)
  /\ m_states[2].external_counting_enabled
  /\ mark[2].carry = 7
  /\ mark[2].counter = 9
  /\ m_states[2].counter = 10
  /\ m_sysclk_div_8_carry = 0

----------------------------------------------------------------------------
(* C16 *)

\* The requests signalled on line TMR0 + i since the last mode write of
\* timer i or the last Reset, the request of that mode write included.
RequestsSinceMode(i) == irq_requests[TMR0 + i] - mark[i].requests

\* C16: a timer whose mode has irq_repeat clear has at most one interrupt
\* request signalled between two mode writes (or Reset), whatever Execute,
\* SetGate, counter and target writes and mode reads come in between; and
\* the requests of timer i are those of line TMR0 + i: the line has a
\* request since the mode write exactly when timer i has latched irq_done.
C16_OneShotRequestsOnce ==
  \A i \in TimerIds :
    /\ ~irq_repeat(m_states[i].mode) => RequestsSinceMode(i) <= 1
    /\ m_states[i].irq_done = (RequestsSinceMode(i) >= 1)

\* A one-shot timer overflowed in each of the last two Execute calls: one
\* request was signalled, by the first.
C16_Witness ==
  /\ PrevOp.op = "Execute" /\ PrevOp.arg = U(0, 65535)
  /\ LastOp.op = "Execute" /\ LastOp.arg = U(0, 65535)
  /\ \E i \in TimerIds :
       /\ ~irq_repeat(m_states[i].mode)
       /\ ~irq_pulse_n(m_states[i].mode)
       /\ last.states[i].irq_done
       /\ last.states[i].counter = 0
       /\ ~last.states[i].external_counting_enabled
       /\ last.states[i].counting_enabled
       /\ reached_overflow(m_states[i].mode)
       /\ RequestsSinceMode(i) = 1

----------------------------------------------------------------------------
(* C17 *)

\* The register accesses that synchronize: counter and mode reads, counter,
\* mode and target writes.
Synchronizes(e) ==
  \/ e.op = "Read" /\ e.at % 16 \in {0, 4}
  \/ e.op = "Write" /\ e.at % 16 \in {0, 4, 8}

\* The step e of timer t on a machine with pending ticks, F being that
\* machine once Execute has been given the pending ticks: the access found
\* F with nothing pending, read F, and changed only what it writes.
AfterFlush(e, t, F) ==
  /\ pending_ticks' = 0
  /\ last' = [F EXCEPT !.pending = 0]
  /\ sysclk' = F.sysclk
  /\ m_sysclk_div_8_carry' = F.carry
  /\ \A u \in TimerIds \ {t} : m_states'[u] = F.states[u]
  /\ e.op = "Read" /\ e.at % 16 = 0
       => /\ e.ret = ToU32(F.states[t].counter)
          /\ m_states'[t] = F.states[t]
  /\ e.op = "Read" /\ e.at % 16 = 4
       => /\ e.ret = ToU32(F.states[t].mode)
          /\ m_states'[t]
               = [F.states[t] EXCEPT
                    !.mode = Set_reached_target(
                               Set_reached_overflow(@, FALSE), FALSE)]
  /\ e.op = "Write" /\ e.at % 16 = 0
       => m_states'[t] = [F.states[t] EXCEPT !.counter = e.arg[2]]
  /\ e.op = "Write" /\ e.at % 16 = 4
       => /\ m_states'[t].counter = 0
          /\ m_states'[t].target = F.states[t].target
          /\ irq_requests'[TMR0 + t] >= F.irqs[TMR0 + t]
  /\ e.op = "Write" /\ e.at % 16 = 8
       => m_states'[t] = [F.states[t] EXCEPT !.target = e.arg[2]]

\* The ticks that p pending sysclk ticks are for timer t of the machine now,
\* -1 when the timer is not counting.
PendingFor(t, p) ==
  IF t = 2 /\ m_states[2].external_counting_enabled
  THEN (p + m_sysclk_div_8_carry) \div 8
  ELSE IF ~m_states[t].external_counting_enabled
          /\ m_states[t].counting_enabled
       THEN p
       ELSE -1

\* The counter of timer t, which does not reset at its target, once it has
\* counted the p pending ticks: by the arithmetic of the counter, not by
\* Execute.
CounterAfter(t, p) ==
  IF PendingFor(t, p) < 0
  THEN m_states[t].counter
  ELSE ((m_states[t].counter % 65535) + (PendingFor(t, p) % 65535)) % 65535

\* A counter read with p ticks pending returns the counter p ticks later.
ReadsLater(e, t) ==
  e.op = "Read" /\ e.at % 16 = 0 /\ ~reset_at_target(m_states[t].mode)
    => e.ret = ToU32(CounterAfter(t, pending_ticks))

\* With ticks pending the access finds what Execute made of them; with none
\* pending Synchronize returns at once and the access finds the machine as
\* it is.
SynchronizesFirst ==
  ops' = ops + 1 /\ Synchronizes(LastOp')
    => IF pending_ticks > 0
       THEN /\ AfterFlush(LastOp', TimerOf(LastOp'.at),
                          ExecuteOp(Pack, pending_ticks))
            /\ ReadsLater(LastOp', TimerOf(LastOp'.at))
       ELSE AfterFlush(LastOp', TimerOf(LastOp'.at), Pack)

\* C17: every counter read, mode read and counter, mode or target write of
\* the timers calls Synchronize before it reads or changes a timer: with p
\* ticks pending, which Synchronize gives to Execute, a counter read
\* returns the counter after the p ticks, a mode read returns and then
\* clears the flags those ticks set, and a mode write leaves the counter 0,
\* the ticks being applied before the reset; with no tick pending the
\* access finds the timers as they were.
C17_SynchronizeBeforeAccess == [][SynchronizesFirst]_vars

\* The counter of timer 0 was written 0xFFFF, a tick was pending, and the
\* mode read returned reached_overflow, which that tick set, and cleared it.
C17_Witness ==
  /\ PrevOp.op = "AddPendingTicks"
  /\ LastOp.op = "Read" /\ LastOp.at = 4
  /\ mark[0].counter = 65535
  /\ TicksSince(0) = 1
  /\ reached_overflow(LastOp.ret[2])
  /\ ~reached_overflow(m_states[0].mode)
  /\ m_states[0].counter = 1
  /\ pending_ticks = 0

----------------------------------------------------------------------------
(* C18 *)

\* The accesses that DoWriteEXP2 received at offset 0x23.
IsTtyWrite(e) ==
  e.op \in BusWrites /\ TypeOf(e.op) = "Write" /\ e.at = EXP2_BASE + 35

NotCR(v) == v # U(0, 13)

IsLine(l) == l # <<>>

\* The values written to the TTY port so far, oldest first.
TtyValues ==
  [k \in 1 .. Len(SelectSeq(trace, IsTtyWrite)) |->
     SelectSeq(trace, IsTtyWrite)[k].arg]

\* The low bytes of the values w[a..b] that are not '\r', in order.
BytesOf(w, a, b) ==
  [k \in 1 .. Len(SelectSeq(SubSeq(w, a, b), NotCR)) |->
     SelectSeq(SubSeq(w, a, b), NotCR)[k][2] % 256]

\* The last '\n' of w before position k, 0 when there is none.
NewlineBefore(w, k) ==
  IF \E j \in 1 .. k - 1 : w[j] = U(0, 10)
  THEN CHOOSE j \in 1 .. k - 1 :
         /\ w[j] = U(0, 10)
         /\ \A h \in j + 1 .. k - 1 : w[h] # U(0, 10)
  ELSE 0

\* The lines the values w should have emitted: at each '\n', the bytes
\* since the '\n' before it, when there are any.
LinesOf(w) ==
  SelectSeq([k \in 1 .. Len(w) |->
               IF w[k] = U(0, 10)
               THEN BytesOf(w, NewlineBefore(w, k) + 1, k - 1)
               ELSE <<>>],
            IsLine)

\* C18: over any sequence of writes to EXP2 offset 0x23, '\r' leaves the
\* line buffer as it is, '\n' emits the buffer as one log line when it is
\* not empty and leaves it empty, any other value appends its low 8 bits:
\* the lines emitted are, in order, the bytes written since the previous
\* '\n' that are not '\r', and the buffer holds those since the last '\n'.
C18_TtyLines ==
  /\ tty_log = LinesOf(TtyValues)
  /\ m_tty_line_buffer
       = BytesOf(TtyValues, NewlineBefore(TtyValues, Len(TtyValues) + 1) + 1,
                 Len(TtyValues))

----------------------------------------------------------------------------
(* C19 *)

\* The ticks the last Execute gave AddTicks for timer i, -1 when it did not
\* call AddTicks for it: read of the machine the Execute found.
TicksGiven(i, n) ==
  IF i = 2 /\ last.states[2].external_counting_enabled
  THEN (n + last.carry) \div 8
  ELSE IF ~last.states[i].external_counting_enabled
          /\ last.states[i].counting_enabled
       THEN n
       ELSE -1

\* AddTicks(n) from cs left now, a timer that does not reset at its target.
WrapsAt65535(cs, n, now) ==
  /\ now.counter = ((cs.counter % 65535) + (n % 65535)) % 65535
  /\ now.counter < 65535
  /\ reached_overflow(now.mode)
       = (reached_overflow(cs.mode) \/ n >= 65535 - cs.counter)

\* C19: for a timer with reset_at_target clear, AddTicks(n) from counter c
\* leaves the counter (c + n) mod 0xFFFF and sets reached_overflow exactly
\* when c + n >= 0xFFFF (a flag set before stays set); the counter is below
\* 0xFFFF after every tick update.
C19_WrapsModulo65535 ==
  LastOp.op = "Execute"
    => \A i \in TimerIds :
         TicksGiven(i, LastOp.arg[1] * Half + LastOp.arg[2]) >= 0
           /\ ~reset_at_target(last.states[i].mode)
           => WrapsAt65535(last.states[i],
                           TicksGiven(i, LastOp.arg[1] * Half + LastOp.arg[2]),
                           m_states[i])

\* A counter written 0xFFFF was given 4 ticks: it is 4, not 3, and
\* reached_overflow was set by the step.
C19_Witness ==
  /\ LastOp.op = "Execute"
  /\ \E i \in TimerIds :
       /\ TicksGiven(i, 4) = 4
       /\ LastOp.arg = U(0, 4)
       /\ ~reset_at_target(last.states[i].mode)
       /\ last.states[i].counter = 65535
       /\ ~reached_overflow(last.states[i].mode)
       /\ m_states[i].counter = 4
       /\ reached_overflow(m_states[i].mode)

----------------------------------------------------------------------------
(* C20 *)

\* SetGate(t, s) found timer t as cs and left it as now.
GateFrame(cs, s, now) ==
  /\ cs.gate = s => now = cs
  /\ cs.gate # s /\ ~sync_enable(cs.mode) => now = [cs EXCEPT !.gate = s]
  /\ now.gate = s
  /\ now.target = cs.target
  /\ now.counter
       = IF /\ cs.gate # s /\ s
            /\ sync_enable(cs.mode)
            /\ sync_mode(cs.mode) \in {ResetOnGate, ResetAndRunOnGate}
         THEN 0
         ELSE cs.counter

\* C20: SetGate(t, s) is edge-triggered and local. With s the gate timer t
\* has, nothing changes; with sync_enable clear only the gate changes; the
\* counter of timer t becomes 0 on a rising edge with sync_enable set and
\* sync_mode ResetOnGate or ResetAndRunOnGate and keeps its value in every
\* other case, every falling edge included; the other two timers and the
\* carry are as they were.
C20_SetGateIsEdgeTriggeredAndLocal ==
  LastOp.op = "SetGate"
    => /\ GateFrame(last.states[LastOp.at], LastOp.arg = U(0, 1),
                    m_states[LastOp.at])
       /\ \A u \in TimerIds \ {LastOp.at} : m_states[u] = last.states[u]
       /\ m_sysclk_div_8_carry = last.carry

\* A rising edge on a ResetOnGate timer whose counter was 0xFFFF.
C20_Witness ==
  /\ LastOp.op = "SetGate" /\ LastOp.arg = U(0, 1)
  /\ ~last.states[LastOp.at].gate
  /\ sync_enable(last.states[LastOp.at].mode)
  /\ sync_mode(last.states[LastOp.at].mode) = ResetOnGate
  /\ last.states[LastOp.at].counter = 65535
  /\ m_states[LastOp.at].counter = 0

----------------------------------------------------------------------------
(* C21 *)

\* C21: the downcount UpdateDowncount publishes is at least 1 in every
\* reachable state: the CPU is never told to run for zero cycles.
C21_DowncountIsPositive == downcount >= 1

\* Timer 2 counts on sysclk/8 with the IRQ at its target, one tick of
\* sysclk/8 short of it: the 8th of that tick count is 0, 1 is published.
C21_Witness ==
  /\ LastOp.op = "Execute"
  /\ m_states[2].external_counting_enabled
  /\ irq_at_target(m_states[2].mode)
  /\ m_states[2].target - m_states[2].counter = 1
  /\ downcount = 1

----------------------------------------------------------------------------
(* C22 *)

\* C22: a timer whose mode has irq_at_target and irq_on_overflow both clear
\* has no interrupt request signalled during Execute, whatever its counter,
\* its target and the ticks.
C22_NoRequestWithoutCondition ==
  LastOp.op = "Execute"
    => \A i \in TimerIds :
         ~irq_at_target(last.states[i].mode)
           /\ ~irq_on_overflow(last.states[i].mode)
           => irq_requests[TMR0 + i] = last.irqs[TMR0 + i]

====
